---- MODULE Spec2Model ----
(***************************************************************************)
(* ConfigSpace/util.py: impute_inactive_values,                            *)
(* get_one_exchange_neighbourhood and get_random_neighbor, run on a small  *)
(* family of configuration spaces.                                         *)
(*                                                                         *)
(* Raw values are integers (a boolean is 1/0), an encoded vector holds an  *)
(* index into the choices of a categorical parameter or a grid position of *)
(* a numerical one.  The Configuration constructor, the hyperparameter     *)
(* classes and the ConfigurationSpace are not part of util.py; they are    *)
(* modelled from their described contract.                                 *)
(***************************************************************************)
EXTENDS Integers, Sequences, FiniteSets, TLC

\* ------------------------------------------------------------------ bounds
\* Seeds handed to the neighbour functions are 0..MaxSeed.
MaxSeed == 1

\* ------------------------------------------------------- special values
\* np.NaN in an encoded vector: the parameter is inactive.
NaN == -1000
\* Python None in a raw-value mapping: the parameter is inactive.
None == -2000
\* get_num_neighbors() of a numerical parameter (np.inf).
Infinity == 1000000
\* The cap of both retry loops.
MaxIterations == 10000

\* --------------------------------------------------- configuration spaces
\* One hyperparameter.  kind "categorical": the raw values are `choices`,
\* encoded as the 0-based position.  kind "float": raw values lower,
\* lower+q, .. upper, encoded as the grid position.  kind "constant": one
\* raw value, encoded 0.
Categorical(name, choices, default) ==
    [name |-> name, kind |-> "categorical", choices |-> choices,
     lower |-> 0, upper |-> 0, q |-> 1, default |-> default]

UniformFloat(name, lower, upper, q, default) ==
    [name |-> name, kind |-> "float", choices |-> <<>>,
     lower |-> lower, upper |-> upper, q |-> q, default |-> default]

Constant(name, value) ==
    [name |-> name, kind |-> "constant", choices |-> <<value>>,
     lower |-> 0, upper |-> 0, q |-> 1, default |-> value]

\* InCondition(child, parent, values): child is active iff parent holds one
\* of `values` (EqualsCondition is the one-value case).
InCondition(child, parent, values) ==
    [child |-> child, parent |-> parent, values |-> values]

\* The spaces the operations are run on.
\*  1: A in {true,false} (default false), B in [0,10] (default 5) | A = true
\*  2: P in {0,1,2} with P = 1 and P = 2 forbidden, and a constant
\*  3: a constant and a float that is never active
\*  4: X in [0,3] with X = 2 forbidden, Y in {0,1}
\*  5: M in {1,0,2}, N in [0,10] | M in {1,2}, and a constant
\*  6: a single categorical with one choice
\*  7: a constant, then L in {0,1}: the only parameter with neighbours is
\*     the last one
\*  8: a chain U -> V -> W: U in {1,0,2}, V in {1,0,2} | U in {1,2},
\*     a constant W | V in {1,2}
Spaces ==
    << [hps |-> << Categorical("A", <<1, 0>>, 0),
                   UniformFloat("B", 0, 10, 5, 5) >>,
        conditions |-> { InCondition("B", "A", {1}) },
        forbiddens |-> {} ],
       [hps |-> << Categorical("P", <<0, 1, 2>>, 0),
                   Constant("K", 7) >>,
        conditions |-> {},
        forbiddens |-> { [name |-> "P", value |-> 1],
                         [name |-> "P", value |-> 2] } ],
       [hps |-> << Constant("K", 1),
                   UniformFloat("D", 0, 2, 1, 1) >>,
        conditions |-> { InCondition("D", "K", {2}) },
        forbiddens |-> {} ],
       [hps |-> << UniformFloat("X", 0, 3, 1, 0),
                   Categorical("Y", <<0, 1>>, 0) >>,
        conditions |-> {},
        forbiddens |-> { [name |-> "X", value |-> 2] } ],
       [hps |-> << Categorical("M", <<1, 0, 2>>, 1),
                   UniformFloat("N", 0, 10, 5, 5),
                   Constant("Z", 3) >>,
        conditions |-> { InCondition("N", "M", {1, 2}) },
        forbiddens |-> {} ],
       [hps |-> << Categorical("S", <<3>>, 3) >>,
        conditions |-> {},
        forbiddens |-> {} ],
       [hps |-> << Constant("C", 4),
                   Categorical("L", <<0, 1>>, 0) >>,
        conditions |-> {},
        forbiddens |-> {} ],
       [hps |-> << Categorical("U", <<1, 0, 2>>, 1),
                   Categorical("V", <<1, 0, 2>>, 0),
                   Constant("W", 9) >>,
        conditions |-> { InCondition("V", "U", {1, 2}),
                         InCondition("W", "V", {1, 2}) },
        forbiddens |-> {} ] >>

SpaceSet == { Spaces[k] : k \in 1..Len(Spaces) }

\* ---------------------------------------------- ConfigurationSpace lookups
num_hyperparameters(cs) == Len(cs.hps)

Indices(cs) == 0..(num_hyperparameters(cs) - 1)

Names(cs) == { cs.hps[k].name : k \in 1..Len(cs.hps) }

get_hyperparameter_by_idx(cs, idx) == cs.hps[idx + 1].name

get_idx_by_hyperparameter_name(cs, name) ==
    CHOOSE idx \in Indices(cs) : cs.hps[idx + 1].name = name

get_hyperparameter(cs, name) ==
    cs.hps[get_idx_by_hyperparameter_name(cs, name) + 1]

\* The direct children of `name` in the condition graph, in index order.
RECURSIVE ChildrenFrom(_, _, _)
ChildrenFrom(cs, name, idx) ==
    IF idx >= num_hyperparameters(cs) THEN <<>>
    ELSE LET child == get_hyperparameter_by_idx(cs, idx)
             here == IF \E c \in cs.conditions :
                            c.parent = name /\ c.child = child
                     THEN <<child>> ELSE <<>>
         IN here \o ChildrenFrom(cs, name, idx + 1)

get_children_of(cs, name) == ChildrenFrom(cs, name, 0)

get_parent_conditions_of(cs, name) ==
    { c \in cs.conditions : c.child = name }

\* ------------------------------------------------ hyperparameter methods
GridSize(hp) == (hp.upper - hp.lower) \div hp.q

\* The encoded values a parameter can hold.
EncodedDomain(hp) ==
    IF hp.kind = "categorical" THEN 0..(Len(hp.choices) - 1)
    ELSE IF hp.kind = "float" THEN 0..GridSize(hp)
    ELSE {0}

\* hp._transform: encoded -> raw.
transform(hp, encoded) ==
    IF encoded = NaN THEN None
    ELSE IF hp.kind = "float" THEN hp.lower + encoded * hp.q
    ELSE hp.choices[encoded + 1]

\* hp._inverse_transform: raw -> encoded.
inverse_transform(hp, raw) ==
    IF raw = None THEN NaN
    ELSE IF hp.kind = "float" THEN (raw - hp.lower) \div hp.q
    ELSE IF \E k \in 1..Len(hp.choices) : hp.choices[k] = raw
         THEN (CHOOSE k \in 1..Len(hp.choices) : hp.choices[k] = raw) - 1
         ELSE NaN

is_legal(hp, raw) ==
    IF hp.kind = "float"
    THEN /\ raw >= hp.lower
         /\ raw <= hp.upper
         /\ (raw - hp.lower) % hp.q = 0
    ELSE \E k \in 1..Len(hp.choices) : hp.choices[k] = raw

get_num_neighbors(hp) ==
    IF hp.kind = "categorical" THEN Len(hp.choices) - 1
    ELSE IF hp.kind = "float" THEN Infinity
    ELSE 0

has_neighbors(hp) == get_num_neighbors(hp) # 0

isinf(x) == x = Infinity

isfinite(x) == x # NaN

\* ------------------------------------------------- np.random.RandomState
\* The generator is a 16-state linear congruential generator; a draw reads
\* the state and advances it.
RandomState(s) == s % 16

Advance(r) == (5 * r + 3) % 16

RECURSIVE AdvanceBy(_, _)
AdvanceBy(r, draws) == IF draws = 0 THEN r ELSE AdvanceBy(Advance(r), draws - 1)

Output(r) == r \div 2

\* random.randint(low, high): an integer of low..high-1 (high is excluded).
randint(r, low, high) == low + (Output(r) % (high - low))

\* ------------------------------------------------------------- neighbours
\* The encoded values of k..hi other than `value`, ascending.
RECURSIVE OthersFrom(_, _, _)
OthersFrom(k, hi, value) ==
    IF k > hi THEN <<>>
    ELSE (IF k = value THEN <<>> ELSE <<k>>) \o OthersFrom(k + 1, hi, value)

Others(hp, value) ==
    IF hp.kind = "categorical" THEN OthersFrom(0, Len(hp.choices) - 1, value)
    ELSE IF hp.kind = "float" THEN OthersFrom(0, GridSize(hp), value)
    ELSE <<>>

\* `number` neighbours of `value`, each drawn with one read of the generator.
RECURSIVE SampleNeighbors(_, _, _, _)
SampleNeighbors(hp, value, r, number) ==
    IF number = 0 \/ Others(hp, value) = <<>> THEN <<>>
    ELSE LET others == Others(hp, value)
         IN <<others[1 + (Output(r) % Len(others))]>>
                \o SampleNeighbors(hp, value, Advance(r), number - 1)

\* hp.get_neighbors(value, random, number=number): encoded neighbours.  A
\* categorical parameter asked for all of its neighbours (number = Infinity)
\* enumerates them without reading the generator.
get_neighbors(hp, value, r, number) ==
    IF isinf(number) THEN Others(hp, value)
    ELSE SampleNeighbors(hp, value, r, number)

\* The generator after that call.
RandomAfterNeighbors(hp, value, r, number) ==
    IF isinf(number) \/ Others(hp, value) = <<>> THEN r
    ELSE AdvanceBy(r, number)

\* ---------------------------------------------------------- Configuration
Dictionary(cs, vector) ==
    [name \in Names(cs) |->
        transform(get_hyperparameter(cs, name),
                  vector[get_idx_by_hyperparameter_name(cs, name)])]

Array(cs, values) ==
    [idx \in Indices(cs) |->
        inverse_transform(cs.hps[idx + 1],
                          values[get_hyperparameter_by_idx(cs, idx)])]

\* A parameter is active iff each of its conditions reads a present parent
\* value and evaluates true.
IsActive(cs, values, name) ==
    \A c \in get_parent_conditions_of(cs, name) :
        /\ values[c.parent] # None
        /\ values[c.parent] \in c.values

ForbiddenViolated(cs, values) ==
    \E f \in cs.forbiddens : values[f.name] = f.value

\* The strict invariant checked by the Configuration constructor.
is_valid_configuration(cs, values) ==
    /\ \A name \in Names(cs) :
          /\ (values[name] # None) <=> IsActive(cs, values, name)
          /\ values[name] # None => is_legal(get_hyperparameter(cs, name), values[name])
    /\ ~ForbiddenViolated(cs, values)

ConfigurationFromVector(cs, vector) ==
    [vector |-> vector, values |-> Dictionary(cs, vector)]

ConfigurationFromValues(cs, values) ==
    [vector |-> Array(cs, values), values |-> values]

\* No configuration (a local that is not bound yet).
NoConfiguration == [vector |-> <<>>, values |-> <<>>]

\* All encoded vectors of a space, and the valid configurations among them.
Vectors(cs) ==
    { v \in [Indices(cs) -> (UNION { EncodedDomain(cs.hps[k]) :
                                      k \in 1..Len(cs.hps) }) \cup {NaN}] :
        \A idx \in Indices(cs) :
            v[idx] = NaN \/ v[idx] \in EncodedDomain(cs.hps[idx + 1]) }

ValidConfigurations(cs) ==
    { ConfigurationFromVector(cs, v) : v \in
        { w \in Vectors(cs) : is_valid_configuration(cs, Dictionary(cs, w)) } }

\* ------------------------------------------------------------ strategies
\* The strategy argument of impute_inactive_values: the keyword 'default',
\* a float, an int, or another string.
Strategies ==
    { [kind |-> "default", value |-> 0],
      [kind |-> "float", value |-> -1],
      [kind |-> "int", value |-> -1],
      [kind |-> "str", value |-> 0] }

NoStrategy == [kind |-> "none", value |-> 0]

Seeds == 0..MaxSeed

\* Python's `x is None`.
is_None(x) == x = None

\* Mutant of ExceedsCap: the cap is hit one attempt early.
ReachesCap(n) == n >= MaxIterations

\* `iteration > 10000` (lines 146 and 208).
ExceedsCap(n) == n > MaxIterations

\* ------------------------------------------------------------------ state
VARIABLES
    op,             \* the function called: "impute", "one_exchange", "random_neighbor"
    cs,             \* configuration.configuration_space (one of Spaces)
    configuration,  \* the input configuration
    seed,           \* the seed argument
    strategy,       \* the strategy argument
    run,            \* 1 for the call, 2 for the call made again afterwards
    first,          \* what call 1 ended with
    pc,             \* the position in the function
    outcome,        \* "running", "returned" or "raised"
    random,         \* the generator
    i,              \* the index of the for loops over the hyperparameters
    number_of_sampled_neighbors,
    iteration,
    array,
    neighbors,      \* the neighbours still to check
    new_array,
    to_visit,       \* the deque, leftmost element first
    neighbourhood,  \* the configurations collected by get_one_exchange_neighbourhood
    perturbed,      \* for each collected configuration, the index i it came from
    attempts,       \* for each index, the candidates handed to the constructor
    values,         \* the dict built by impute / the raw mapping of get_random_neighbor
    rand_idx,
    previous_value,
    new_configuration

vars == << op, cs, configuration, seed, strategy, run, first, pc, outcome,
           random, i, number_of_sampled_neighbors, iteration, array, neighbors,
           new_array, to_visit, neighbourhood, perturbed, attempts, values,
           rand_idx, previous_value, new_configuration >>

args == << op, cs, configuration, seed, strategy >>

one_exchange_locals ==
    << number_of_sampled_neighbors, array, neighbors, new_array, to_visit,
       neighbourhood, perturbed, attempts >>

random_neighbor_locals == << rand_idx, previous_value >>

NoResult == [outcome |-> "none", neighbourhood |-> <<>>,
             new_configuration |-> NoConfiguration]

Init ==
    /\ op \in {"impute", "one_exchange", "random_neighbor"}
    /\ cs \in SpaceSet
    /\ configuration \in ValidConfigurations(cs)
    /\ seed \in (IF op = "impute" THEN {0} ELSE Seeds)
    /\ strategy \in (IF op = "impute" THEN Strategies ELSE {NoStrategy})
    /\ run = 1
    /\ first = NoResult
    /\ pc = "start"
    /\ outcome = "running"
    /\ random = 0
    /\ i = 0
    /\ number_of_sampled_neighbors = 0
    /\ iteration = 0
    /\ array = <<>>
    /\ neighbors = <<>>
    /\ new_array = <<>>
    /\ to_visit = <<>>
    /\ neighbourhood = <<>>
    /\ perturbed = <<>>
    /\ attempts = <<>>
    /\ values = <<>>
    /\ rand_idx = 0
    /\ previous_value = None
    /\ new_configuration = NoConfiguration

\* Mutant of FreshGenerator: the calls share one generator.
SharedGenerator == random

\* random = np.random.RandomState(seed) (lines 55 and 180): each call makes
\* its own generator from the seed.
FreshGenerator == RandomState(seed)

\* ------------------------------------------------- impute_inactive_values
\* Line 21.
ImputeStart ==
    /\ op = "impute" /\ pc = "start"
    /\ values' = <<>>
    /\ i' = 0
    /\ pc' = "impute_for"
    /\ UNCHANGED << args, run, first, outcome, random, iteration,
                    random_neighbor_locals, new_configuration,
                    one_exchange_locals >>

\* Mutant of new_value: the default is taken in its encoded form.
new_value_encoded(hp) ==
    IF strategy.kind = "default" THEN inverse_transform(hp, hp.default)
    ELSE strategy.value

\* The value the strategy gives a missing parameter (lines 26-32).
new_value(hp) ==
    IF strategy.kind = "default" THEN hp.default ELSE strategy.value

\* isinstance(strategy, float)
is_float(s) == s.kind = "float"

\* The strategy is one the function knows (lines 26, 31, 34).
KnownStrategy == strategy.kind = "default" \/ is_float(strategy)

\* Mutant of imputed: a present value is replaced as well.
imputed_always(value, hp) == new_value(hp)

\* Lines 23-39: a present value is kept, a missing one is replaced.
imputed(value, hp) == IF is_None(value) THEN new_value(hp) ELSE value

\* Lines 22-39, one parameter that has a value or gets one.
ImputeValue ==
    /\ op = "impute" /\ pc = "impute_for"
    /\ i < num_hyperparameters(cs)
    /\ LET hp_name == get_hyperparameter_by_idx(cs, i)
           value == configuration.values[hp_name]
       IN /\ is_None(value) => KnownStrategy
          /\ values' = values @@
                (hp_name :> imputed(value, get_hyperparameter(cs, hp_name)))
    /\ i' = i + 1
    /\ UNCHANGED << args, run, first, pc, outcome, random, iteration,
                    random_neighbor_locals, new_configuration,
                    one_exchange_locals >>

\* Lines 34-35: a missing value and an unknown strategy.
ImputeRaise ==
    /\ op = "impute" /\ pc = "impute_for"
    /\ i < num_hyperparameters(cs)
    /\ is_None(configuration.values[get_hyperparameter_by_idx(cs, i)])
    /\ ~KnownStrategy
    /\ pc' = "done"
    /\ outcome' = "raised"
    /\ UNCHANGED << args, run, first, random, i, iteration,
                    random_neighbor_locals, values, new_configuration,
                    one_exchange_locals >>

\* Lines 41-44: the result is built with allow_inactive_with_values=True,
\* which skips the check of the strict invariant.
ImputeReturn ==
    /\ op = "impute" /\ pc = "impute_for"
    /\ i >= num_hyperparameters(cs)
    /\ new_configuration' = ConfigurationFromValues(cs, values)
    /\ pc' = "done"
    /\ outcome' = "returned"
    /\ UNCHANGED << args, run, first, random, i, iteration,
                    random_neighbor_locals, values, one_exchange_locals >>

\* ------------------------------------------- get_one_exchange_neighbourhood
\* deque.extendleft(xs): each element is pushed at the left in turn.
RECURSIVE Reverse(_)
Reverse(xs) == IF xs = <<>> THEN <<>> ELSE Reverse(Tail(xs)) \o <<Head(xs)>>

extendleft(deque, xs) == Reverse(xs) \o deque

\* deque.pop(): the rightmost element.
Rightmost(deque) == deque[Len(deque)]

WithoutRightmost(deque) == SubSeq(deque, 1, Len(deque) - 1)

\* Lines 55-56.
OneExchangeStart ==
    /\ op = "one_exchange" /\ pc = "start"
    /\ random' = FreshGenerator
    /\ neighbourhood' = <<>>
    /\ perturbed' = <<>>
    /\ attempts' = [idx \in Indices(cs) |-> 0]
    /\ i' = 0
    /\ pc' = "for"
    /\ UNCHANGED << args, run, first, outcome, iteration,
                    random_neighbor_locals, values, new_configuration,
                    number_of_sampled_neighbors, array, neighbors, new_array,
                    to_visit >>

\* Mutant of InitialIteration: the counter goes on from the hyperparameter
\* before.
KeptIteration == iteration

\* iteration = 0 (line 59), inside the for loop over the hyperparameters.
InitialIteration == 0

\* Lines 57-63: the next hyperparameter; an inactive one is skipped.
ForHyperparameter ==
    /\ op = "one_exchange" /\ pc = "for"
    /\ i < num_hyperparameters(cs)
    /\ number_of_sampled_neighbors' = 0
    /\ iteration' = InitialIteration
    /\ array' = configuration.vector
    /\ IF ~isfinite(configuration.vector[i])
       THEN /\ i' = i + 1
            /\ pc' = "for"
       ELSE /\ i' = i
            /\ pc' = "while"
    /\ UNCHANGED << args, run, first, outcome, random, random_neighbor_locals,
                    values, new_configuration, neighbors, new_array, to_visit,
                    neighbourhood, perturbed, attempts >>

\* Line 150.
OneExchangeReturn ==
    /\ op = "one_exchange" /\ pc = "for"
    /\ i >= num_hyperparameters(cs)
    /\ pc' = "done"
    /\ outcome' = "returned"
    /\ UNCHANGED << args, run, first, random, i, iteration,
                    random_neighbor_locals, values, new_configuration,
                    one_exchange_locals >>

\* Mutant of num_samples: every round asks for four neighbours until four
\* have been collected.
num_samples_four == IF number_of_sampled_neighbors >= 4 THEN 0 ELSE 4

\* num_samples of line 74.
num_samples == 4 - number_of_sampled_neighbors

\* Lines 71-76 and 80-81: the while loop is left.
WhileBreaks ==
    LET num_neighbors == get_num_neighbors(get_hyperparameter(cs,
                              get_hyperparameter_by_idx(cs, i)))
    IN \/ num_neighbors = 0
       \/ isinf(num_neighbors) /\ num_samples <= 0
       \/ ~isinf(num_neighbors) /\ num_neighbors # 0
             /\ number_of_sampled_neighbors > 0

\* Lines 65-82, a round that breaks: on to the next hyperparameter.
WhileBreak ==
    /\ op = "one_exchange" /\ pc = "while"
    /\ WhileBreaks
    /\ i' = i + 1
    /\ pc' = "for"
    /\ UNCHANGED << args, run, first, outcome, random, iteration,
                    random_neighbor_locals, values, new_configuration,
                    one_exchange_locals >>

\* Lines 65-82, a round that obtains neighbours.
WhileSample ==
    /\ op = "one_exchange" /\ pc = "while"
    /\ ~WhileBreaks
    /\ LET hp == get_hyperparameter(cs, get_hyperparameter_by_idx(cs, i))
           number == IF isinf(get_num_neighbors(hp)) THEN num_samples
                     ELSE Infinity
       IN /\ neighbors' = get_neighbors(hp, array[i], random, number)
          /\ random' = RandomAfterNeighbors(hp, array[i], random, number)
          /\ pc' = IF get_neighbors(hp, array[i], random, number) = <<>>
                   THEN "while" ELSE "neighbor"
    /\ UNCHANGED << args, run, first, outcome, i, iteration,
                    random_neighbor_locals, values, new_configuration,
                    number_of_sampled_neighbors, array, new_array, to_visit,
                    neighbourhood, perturbed, attempts >>

\* Mutant of CandidateArray: the neighbour is written into the one array
\* all candidates share, without a copy.
CandidateArrayShared ==
    [(IF new_array = <<>> THEN array ELSE new_array) EXCEPT ![i] = Head(neighbors)]

\* Lines 86-87: a copy of the array with the neighbour at index i.
CandidateArray == [array EXCEPT ![i] = Head(neighbors)]

\* Lines 85-95: the next neighbour is written into a copy of the array and
\* the children of the hyperparameter are queued.
ForNeighbor ==
    /\ op = "one_exchange" /\ pc = "neighbor"
    /\ neighbors # <<>>
    /\ LET children == get_children_of(cs, get_hyperparameter_by_idx(cs, i))
       IN /\ new_array' = CandidateArray
          /\ neighbors' = Tail(neighbors)
          /\ IF Len(children) > 0
             THEN /\ to_visit' = extendleft(<<>>, children)
                  /\ pc' = "visit"
             ELSE /\ to_visit' = <<>>
                  /\ pc' = "construct"
    /\ UNCHANGED << args, run, first, outcome, random, i, iteration,
                    random_neighbor_locals, values, new_configuration,
                    number_of_sampled_neighbors, array, neighbourhood,
                    perturbed, attempts >>

\* Mutant of active: the parent values are read from the candidate.
active_in_candidate(current) ==
    \A condition \in get_parent_conditions_of(cs, current) :
        LET parents == Dictionary(cs, new_array)[condition.parent]
        IN /\ ~is_None(parents)
           /\ parents \in condition.values

\* Lines 105-121: is `current` active?  The parent values are read from
\* `configuration`, the input of the call.
active(current) ==
    \A condition \in get_parent_conditions_of(cs, current) :
        LET parents == configuration.values[condition.parent]
        IN /\ ~is_None(parents)
           /\ parents \in condition.values

\* Lines 96-135: one hyperparameter is taken from the deque.
Visit ==
    /\ op = "one_exchange" /\ pc = "visit"
    /\ Len(to_visit) > 0
    /\ LET current == Rightmost(to_visit)
           current_idx == get_idx_by_hyperparameter_name(cs, current)
           current_value == new_array[current_idx]
           hp == get_hyperparameter(cs, current)
           activated == active(current) /\ is_None(current_value)
           deactivated == ~active(current) /\ ~is_None(current_value)
           children == get_children_of(cs, current)
           rest == IF activated /\ Len(children) > 0
                   THEN extendleft(WithoutRightmost(to_visit), children)
                   ELSE WithoutRightmost(to_visit)
       IN /\ new_array' =
                 IF deactivated THEN [new_array EXCEPT ![current_idx] = NaN]
                 ELSE IF activated
                 THEN [new_array EXCEPT ![current_idx] =
                          inverse_transform(hp, hp.default)]
                 ELSE new_array
          /\ to_visit' = rest
          /\ pc' = IF Len(rest) > 0 THEN "visit" ELSE "construct"
    /\ UNCHANGED << args, run, first, outcome, random, i, iteration,
                    random_neighbor_locals, values, new_configuration,
                    number_of_sampled_neighbors, array, neighbors,
                    neighbourhood, perturbed, attempts >>

\* Mutant of Accepted: the candidate is collected without the check.
AcceptedUnchecked(vector) == TRUE

\* Lines 138-144: Configuration(space, vector=new_array) raises ValueError
\* unless the vector satisfies the strict invariant.
Accepted(vector) == is_valid_configuration(cs, Dictionary(cs, vector))

\* Mutant of NextIteration: the attempt is not counted.
SameIteration == iteration

\* iteration += 1 (line 148).
NextIteration == iteration + 1

\* Lines 138-148, below the cap: the candidate is collected or dropped.
Construct ==
    /\ op = "one_exchange" /\ pc = "construct"
    /\ ~ExceedsCap(iteration)
    /\ IF Accepted(new_array)
       THEN /\ neighbourhood' =
                  Append(neighbourhood, ConfigurationFromVector(cs, new_array))
            /\ perturbed' = Append(perturbed, i)
            /\ number_of_sampled_neighbors' = number_of_sampled_neighbors + 1
       ELSE UNCHANGED << neighbourhood, perturbed, number_of_sampled_neighbors >>
    /\ attempts' = [attempts EXCEPT ![i] = @ + 1]
    /\ iteration' = NextIteration
    /\ pc' = IF neighbors = <<>> THEN "while" ELSE "neighbor"
    /\ UNCHANGED << args, run, first, outcome, random, i,
                    random_neighbor_locals, values, new_configuration, array,
                    neighbors, new_array, to_visit >>

\* Lines 138-147, past the cap: ValueError('Infinite loop!').
ConstructRaise ==
    /\ op = "one_exchange" /\ pc = "construct"
    /\ ExceedsCap(iteration)
    /\ IF Accepted(new_array)
       THEN /\ neighbourhood' =
                  Append(neighbourhood, ConfigurationFromVector(cs, new_array))
            /\ perturbed' = Append(perturbed, i)
            /\ number_of_sampled_neighbors' = number_of_sampled_neighbors + 1
       ELSE UNCHANGED << neighbourhood, perturbed, number_of_sampled_neighbors >>
    /\ attempts' = [attempts EXCEPT ![i] = @ + 1]
    /\ pc' = "done"
    /\ outcome' = "raised"
    /\ UNCHANGED << args, run, first, random, i, iteration,
                    random_neighbor_locals, values, new_configuration, array,
                    neighbors, new_array, to_visit >>

\* ------------------------------------------------------ get_random_neighbor
\* Lines 180-187: the generator, a deep copy of the raw values, and the
\* first round of the outer loop.
RandomNeighborStart ==
    /\ op = "random_neighbor" /\ pc = "start"
    /\ random' = FreshGenerator
    /\ values' = configuration.values
    /\ iteration' = 0
    /\ pc' = "select"
    /\ UNCHANGED << args, run, first, outcome, i, new_configuration,
                    random_neighbor_locals, one_exchange_locals >>

\* Lines 190-194: the index drawn, and the generator after the draw.
DrawnIndex ==
    IF num_hyperparameters(cs) > 1
    THEN randint(random, 0, num_hyperparameters(cs) - 1)
    ELSE 0

RandomAfterIndex ==
    IF num_hyperparameters(cs) > 1 THEN Advance(random) ELSE random

\* Lines 196-206: the drawn hyperparameter is active and has neighbours.
Selectable(idx) ==
    /\ isfinite(configuration.vector[idx])
    /\ has_neighbors(cs.hps[idx + 1])

\* Lines 188-209, one round of the inner loop that does not raise.
Select ==
    /\ op = "random_neighbor" /\ pc = "select"
    /\ ~ExceedsCap(iteration + 1)
    /\ iteration' = iteration + 1
    /\ rand_idx' = DrawnIndex
    /\ random' = RandomAfterIndex
    /\ pc' = IF Selectable(DrawnIndex) THEN "draw" ELSE "select"
    /\ UNCHANGED << args, run, first, outcome, i, values, previous_value,
                    new_configuration, one_exchange_locals >>

\* Lines 208-209: ValueError('Probably caught in an infinite loop.').
SelectRaise ==
    /\ op = "random_neighbor" /\ pc = "select"
    /\ ExceedsCap(iteration + 1)
    /\ iteration' = iteration + 1
    /\ rand_idx' = DrawnIndex
    /\ random' = RandomAfterIndex
    /\ pc' = "done"
    /\ outcome' = "raised"
    /\ UNCHANGED << args, run, first, i, values, previous_value,
                    new_configuration, one_exchange_locals >>

\* Mutant of InputAfterWrite: values is the input's own mapping, so the
\* write reaches the input.
InputWrittenThrough(name, value) ==
    [configuration EXCEPT !.values[name] = value]

\* The input after values[name] = value (lines 213 and 220): values is a
\* deep copy of the input's mapping (line 182), the input is not touched.
InputAfterWrite(name, value) == configuration

\* Lines 211-213: one neighbour in the raw domain is written into values.
Draw ==
    /\ op = "random_neighbor" /\ pc = "draw"
    /\ LET hp == cs.hps[rand_idx + 1]
           value == configuration.vector[rand_idx]
           neighbor == transform(hp, get_neighbors(hp, value, random, 1)[1])
       IN /\ previous_value' = values[hp.name]
          /\ values' = [values EXCEPT ![hp.name] = neighbor]
          /\ configuration' = InputAfterWrite(hp.name, neighbor)
          /\ random' = RandomAfterNeighbors(hp, value, random, 1)
    /\ pc' = "try"
    /\ UNCHANGED << op, cs, seed, strategy, run, first, outcome, i, iteration,
                    rand_idx, new_configuration, one_exchange_locals >>

\* Lines 215-222: Configuration(space, values=values) accepts the values.
RandomNeighborReturn ==
    /\ op = "random_neighbor" /\ pc = "try"
    /\ is_valid_configuration(cs, values)
    /\ new_configuration' = ConfigurationFromValues(cs, values)
    /\ pc' = "done"
    /\ outcome' = "returned"
    /\ UNCHANGED << args, run, first, random, i, iteration, values,
                    random_neighbor_locals, one_exchange_locals >>

\* Mutant of Restored: the rejected value stays in values.
NotRestored == values

\* values[hp.name] = previous_value (line 220).
Restored == [values EXCEPT ![cs.hps[rand_idx + 1].name] = previous_value]

\* Lines 219-220 and 184-187: the constructor raised ValueError; the value
\* is restored and the outer loop starts its next round.
Reject ==
    /\ op = "random_neighbor" /\ pc = "try"
    /\ ~is_valid_configuration(cs, values)
    /\ values' = Restored
    /\ configuration' =
          InputAfterWrite(cs.hps[rand_idx + 1].name, previous_value)
    /\ iteration' = 0
    /\ pc' = "select"
    /\ UNCHANGED << op, cs, seed, strategy, run, first, outcome, random, i,
                    new_configuration, random_neighbor_locals,
                    one_exchange_locals >>

\* ------------------------------------------------------- the second call
\* What a finished call ended with.
Result == [outcome |-> outcome, neighbourhood |-> neighbourhood,
           new_configuration |-> new_configuration]

\* After the call has ended the function is called once more: a neighbour
\* function with the same configuration and seed, impute_inactive_values
\* with the configuration it returned.  The generator of the first call is
\* still around; the locals are not.
CallAgain ==
    /\ run = 1
    /\ IF op = "impute" THEN outcome = "returned" ELSE outcome # "running"
    /\ run' = 2
    /\ first' = Result
    /\ configuration' = IF op = "impute" THEN new_configuration ELSE configuration
    /\ pc' = "start"
    /\ outcome' = "running"
    /\ i' = 0
    /\ number_of_sampled_neighbors' = 0
    /\ iteration' = 0
    /\ array' = <<>>
    /\ neighbors' = <<>>
    /\ new_array' = <<>>
    /\ to_visit' = <<>>
    /\ neighbourhood' = <<>>
    /\ perturbed' = <<>>
    /\ attempts' = <<>>
    /\ values' = <<>>
    /\ rand_idx' = 0
    /\ previous_value' = None
    /\ new_configuration' = NoConfiguration
    /\ UNCHANGED << op, cs, seed, strategy, random >>

Next ==
    \/ ImputeStart
    \/ ImputeValue
    \/ ImputeRaise
    \/ ImputeReturn
    \/ OneExchangeStart
    \/ ForHyperparameter
    \/ OneExchangeReturn
    \/ WhileBreak
    \/ WhileSample
    \/ ForNeighbor
    \/ Visit
    \/ Construct
    \/ ConstructRaise
    \/ RandomNeighborStart
    \/ Select
    \/ SelectRaise
    \/ Draw
    \/ RandomNeighborReturn
    \/ Reject
    \/ CallAgain

Spec == Init /\ [][Next]_vars

\* ------------------------------------------------ operations on their own
\* get_random_neighbor alone, as a program that keeps running until it
\* returns or raises.
InitRandomNeighbor == Init /\ op = "random_neighbor"

NextRandomNeighbor ==
    \/ RandomNeighborStart
    \/ Select
    \/ SelectRaise
    \/ Draw
    \/ RandomNeighborReturn
    \/ Reject
    \/ CallAgain

SpecRandomNeighbor ==
    InitRandomNeighbor /\ [][NextRandomNeighbor]_vars
        /\ WF_vars(NextRandomNeighbor)

\* get_one_exchange_neighbourhood alone, as a program that keeps running
\* until it returns or raises.
InitOneExchange == Init /\ op = "one_exchange"

NextOneExchange ==
    \/ OneExchangeStart
    \/ ForHyperparameter
    \/ OneExchangeReturn
    \/ WhileBreak
    \/ WhileSample
    \/ ForNeighbor
    \/ Visit
    \/ Construct
    \/ ConstructRaise

SpecOneExchange ==
    InitOneExchange /\ [][NextOneExchange]_vars
        /\ WF_vars(NextOneExchange)

\* ----------------------------------------------------------------- claims
\* The condition graph: the parameters reached from `name` by one or more
\* parent -> child steps.
RECURSIVE ReachedFrom(_, _)
ReachedFrom(names, steps) ==
    IF steps = 0 THEN names
    ELSE ReachedFrom(names \cup { c.child : c \in
                        { d \in cs.conditions : d.parent \in names } },
                     steps - 1)

Descendants(name) ==
    ReachedFrom({name}, num_hyperparameters(cs)) \ {name}

\* The strict invariant of the space, stated over a configuration's own
\* values: a parameter holds a value iff each of its conditions holds, no
\* forbidden clause matches, and the encoded vector agrees with the values.
SatisfiesStrictInvariant(c) ==
    /\ \A name \in Names(cs) :
          (c.values[name] # None) <=>
              (\A cond \in cs.conditions :
                  cond.child = name =>
                      /\ c.values[cond.parent] # None
                      /\ c.values[cond.parent] \in cond.values)
    /\ \A f \in cs.forbiddens : c.values[f.name] # f.value
    /\ \A idx \in Indices(cs) :
          (c.vector[idx] = NaN) <=> (c.values[cs.hps[idx + 1].name] = None)

\* C1: every configuration collected by get_one_exchange_neighbourhood and
\* the configuration returned by get_random_neighbor satisfies the strict
\* invariant of the space.
C1_ReturnedConfigurationsValid ==
    /\ op = "one_exchange" =>
          \A k \in 1..Len(neighbourhood) :
              SatisfiesStrictInvariant(neighbourhood[k])
    /\ (op = "random_neighbor" /\ outcome = "returned") =>
          SatisfiesStrictInvariant(new_configuration)

\* A one-exchange call has returned neighbours although candidates of it
\* were rejected, in a space with a forbidden clause or a condition.
C1_Witness ==
    /\ op = "one_exchange" /\ outcome = "returned"
    /\ Len(neighbourhood) > 0
    /\ cs.forbiddens # {} \/ cs.conditions # {}
    /\ \E idx \in Indices(cs) :
          Cardinality({ k \in 1..Len(perturbed) : perturbed[k] = idx }) > 0
            /\ \E v \in Vectors(cs) :
                  /\ \A other \in Indices(cs) \ {idx} :
                        v[other] = configuration.vector[other]
                  /\ v[idx] # NaN
                  /\ ~is_valid_configuration(cs, Dictionary(cs, v))

\* The scenario of the specification: space 1 and {A: false, B: missing}.
Scenario ==
    /\ cs = Spaces[1]
    /\ configuration.values["A"] = 0
    /\ configuration.values["B"] = None

\* C2: in the scenario get_one_exchange_neighbourhood returns a list with a
\* configuration that has A = true and B = 5, B having been set to its
\* default by the activation propagation of the candidate with A = true.
C2_ScenarioNeighbourActivatesB ==
    (op = "one_exchange" /\ Scenario) =>
        /\ (pc = "construct" /\ transform(cs.hps[1], new_array[0]) = 1) =>
              transform(cs.hps[2], new_array[1]) = 5
        /\ pc = "done" =>
              /\ outcome = "returned"
              /\ \E k \in 1..Len(neighbourhood) :
                    /\ neighbourhood[k].values["A"] = 1
                    /\ neighbourhood[k].values["B"] = 5

\* A neighbour of the hyperparameter at idx, written into the raw values.
ValuesWith(idx, encoded) ==
    [configuration.values EXCEPT
        ![cs.hps[idx + 1].name] = transform(cs.hps[idx + 1], encoded)]

\* Some hyperparameter is active and has neighbours, and every neighbour
\* of every such hyperparameter is rejected by strict construction.
EveryNeighbourRejected ==
    /\ \E idx \in Indices(cs) : Selectable(idx)
    /\ \A idx \in Indices(cs) :
          Selectable(idx) =>
              \A encoded \in EncodedDomain(cs.hps[idx + 1]) :
                  encoded # configuration.vector[idx] =>
                      ~is_valid_configuration(cs, ValuesWith(idx, encoded))

\* C3: get_random_neighbor never loops forever: when every neighbour of
\* every selectable hyperparameter is rejected, the call ends (by raising).
C3_RandomNeighborEnds ==
    (op = "random_neighbor" /\ run = 1 /\ EveryNeighbourRejected)
        ~> (pc = "done" /\ outcome = "raised")

\* Every active hyperparameter of the input has no neighbours.
NoNeighbours ==
    \A idx \in Indices(cs) :
        isfinite(configuration.vector[idx]) =>
            get_num_neighbors(cs.hps[idx + 1]) = 0

\* C4: when every active hyperparameter has no neighbours,
\* get_one_exchange_neighbourhood collects nothing, does not raise and
\* returns the empty list, and get_random_neighbor draws no neighbour and
\* ends by raising when its selection loop is in round 10001.
C4_NoNeighbours ==
    NoNeighbours =>
        /\ op = "one_exchange" =>
              /\ neighbourhood = <<>>
              /\ outcome # "raised"
              /\ pc \in {"start", "for", "while", "done"}
              /\ run = 2 =>
                    (first.outcome = "returned" /\ first.neighbourhood = <<>>)
        /\ op = "random_neighbor" =>
              /\ pc \in {"start", "select", "done"}
              /\ pc = "done" =>
                    (outcome = "raised" /\ iteration = MaxIterations + 1)

\* get_random_neighbor has raised on an input whose only active
\* hyperparameter is a constant, the other hyperparameter being inactive.
C4_Witness ==
    /\ NoNeighbours
    /\ op = "random_neighbor" /\ outcome = "raised"
    /\ num_hyperparameters(cs) > 1
    /\ \E idx \in Indices(cs) : ~isfinite(configuration.vector[idx])

\* C5: a neighbour function called again with the same configuration and
\* seed ends as the first call did: the same configurations in the same
\* order, or both raise.
C5_Deterministic ==
    (op # "impute" /\ run = 2 /\ pc = "done") => Result = first

\* The second call of get_one_exchange_neighbourhood has returned
\* neighbours that were sampled with the generator.
C5_Witness ==
    /\ op = "one_exchange" /\ run = 2 /\ outcome = "returned"
    /\ Len(neighbourhood) >= 4
    /\ random # RandomState(seed)

\* The number of collected configurations that came from index idx.
Contributed(idx) ==
    Cardinality({ k \in 1..Len(perturbed) : perturbed[k] = idx })

\* C6: at every point of a get_one_exchange_neighbourhood call a
\* hyperparameter of unbounded neighbour cardinality has contributed at
\* most 4 configurations.
C6_AtMostFourSampled ==
    op = "one_exchange" =>
        \A idx \in Indices(cs) :
            isinf(get_num_neighbors(cs.hps[idx + 1])) => Contributed(idx) <= 4

\* A float has contributed 4 configurations over several rounds, some of
\* its candidates having been rejected.
C6_Witness ==
    /\ op = "one_exchange" /\ pc = "while"
    /\ isinf(get_num_neighbors(cs.hps[i + 1]))
    /\ Contributed(i) = 4
    /\ iteration > 5

\* The strategies the specification calls valid: the keyword or a number.
DefaultOrNumeric ==
    strategy.kind \in {"default", "float", "int"}

\* C7: impute_inactive_values raises for every strategy that is neither
\* 'default' nor a number, whatever the configuration, and does not raise
\* for a number.
C7_InvalidStrategyRaises ==
    (op = "impute" /\ run = 1 /\ pc = "done") =>
        (outcome = "raised" <=> ~DefaultOrNumeric)

\* The result of impute_inactive_values has, for every hyperparameter, the
\* input's value if present, else the default or the sentinel.
Imputed ==
    /\ outcome = "returned"
    /\ \A idx \in Indices(cs) :
          LET hp == cs.hps[idx + 1]
              value == configuration.values[hp.name]
              result == new_configuration.values[hp.name]
          IN /\ result # None
             /\ value # None => result = value
             /\ value = None =>
                   result = (IF strategy.kind = "default" THEN hp.default
                             ELSE strategy.value)

C9_ImputeIdempotent ==
    (op = "impute" /\ pc = "done") =>
        /\ (\A name \in Names(cs) : configuration.values[name] # None) =>
              (outcome = "returned"
                  /\ new_configuration.values = configuration.values)
        /\ run = 2 => new_configuration = first.new_configuration

\* The result of an imputation that replaced a missing value by a sentinel
\* has been imputed again.
C9_Witness ==
    /\ op = "impute" /\ run = 2 /\ outcome = "returned"
    /\ strategy.kind = "float"
    /\ \E name \in Names(cs) : configuration.values[name] = strategy.value

\* C10: every collected configuration differs from the input at the index
\* it was produced from, and agrees with the input at every index that is
\* not a descendant of that one in the condition graph.
C10_Locality ==
    op = "one_exchange" =>
        \A k \in 1..Len(neighbourhood) :
            LET p == perturbed[k]
                c == neighbourhood[k]
            IN /\ c.vector[p] # configuration.vector[p]
               /\ c.values[cs.hps[p + 1].name] #
                      configuration.values[cs.hps[p + 1].name]
               /\ \A idx \in Indices(cs) :
                     (idx # p /\ cs.hps[idx + 1].name \notin
                                    Descendants(cs.hps[p + 1].name)) =>
                         /\ c.vector[idx] = configuration.vector[idx]
                         /\ c.values[cs.hps[idx + 1].name] =
                                configuration.values[cs.hps[idx + 1].name]

\* The returned list holds a neighbour from a hyperparameter that has a
\* child and neighbours from that child.
C10_Witness ==
    /\ op = "one_exchange" /\ outcome = "returned"
    /\ \E k, m \in 1..Len(neighbourhood) :
          /\ perturbed[k] # perturbed[m]
          /\ cs.hps[perturbed[m] + 1].name \in
                Descendants(cs.hps[perturbed[k] + 1].name)

\* The hyperparameter chosen by get_random_neighbor in this round.
Chosen == cs.hps[rand_idx + 1].name

\* The parameters whose raw value differs between two mappings.
Differing(v, w) == { name \in Names(cs) : v[name] # w[name] }

\* The parameters that hold a value in a mapping.
Present(v) == { name \in Names(cs) : v[name] # None }

\* The parameters whose conditions hold over a mapping.
ActiveSet(v) == { name \in Names(cs) : IsActive(cs, v, name) }

\* The generator of this call after `reads` reads.
ReadsAfter(reads) == AdvanceBy(RandomState(seed), reads)

\* C11: at every construction attempt of get_random_neighbor the raw-value
\* mapping differs from the input's in the chosen parameter only, a
\* rejected change is restored before the next attempt, a change that
\* activates or deactivates another parameter is not accepted, and the
\* returned configuration differs from the input in exactly one parameter
\* and has the input's set of active parameters.
C11_RandomNeighborOneChange ==
    op = "random_neighbor" =>
        /\ pc = "try" =>
              /\ Differing(values, configuration.values) = {Chosen}
              /\ is_valid_configuration(cs, values) =>
                    ActiveSet(values) = ActiveSet(configuration.values)
        /\ pc \in {"select", "draw"} => values = configuration.values
        /\ outcome = "returned" =>
              /\ Cardinality(Differing(new_configuration.values,
                                       configuration.values)) = 1
              /\ Present(new_configuration.values) =
                     Present(configuration.values)
              /\ ActiveSet(new_configuration.values) =
                     ActiveSet(configuration.values)
              /\ \A idx \in Indices(cs) :
                     (new_configuration.vector[idx] = NaN) <=>
                         (configuration.vector[idx] = NaN)

\* get_random_neighbor has returned a neighbour in a space with conditions
\* after a change that deactivated a child was rejected and restored: no
\* selection was repeated, and the generator was read more than twice.
C11_Witness ==
    /\ op = "random_neighbor" /\ run = 1 /\ outcome = "returned"
    /\ cs.conditions # {}
    /\ \A idx \in 0..(num_hyperparameters(cs) - 2) : Selectable(idx)
    /\ \E rejections \in 1..3 : random = ReadsAfter(2 + 2 * rejections)

\* C12: no step of a call of impute_inactive_values,
\* get_one_exchange_neighbourhood or get_random_neighbor changes the input
\* configuration, neither its encoded vector nor its raw-value mapping, up
\* to and including the step that returns or raises; the array that
\* get_one_exchange_neighbourhood obtains from the input is never written.
C12_InputUnchanged ==
    [][ /\ run' = run =>
              /\ configuration'.vector = configuration.vector
              /\ configuration'.values = configuration.values
        /\ (op' = "one_exchange" /\ array' # <<>>) =>
              array' = configuration'.vector ]_vars

\* get_random_neighbor has returned a configuration built from its own
\* mapping, which it has written to and which differs from the input's; a
\* rejected value had been written and taken back before.
C12_Witness ==
    /\ op = "random_neighbor" /\ outcome = "returned"
    /\ new_configuration.values = values
    /\ values # configuration.values
    /\ previous_value = configuration.values[Chosen]
    /\ random \notin { ReadsAfter(reads) : reads \in 0..2 }

\* The direct children of the hyperparameter at index idx.
DirectChildren(idx) ==
    { c.child : c \in { d \in cs.conditions : d.parent = cs.hps[idx + 1].name } }

\* C13: when the activation propagation of a candidate is over, every
\* direct child of the perturbed hyperparameter holds a value in the
\* candidate vector iff all of its conditions hold over the candidate's
\* values: a child whose condition has become false is cleared, a child
\* whose condition has become true holds its encoded default.
C13_ChildrenConsistent ==
    (op = "one_exchange" /\ pc = "construct") =>
        \A child \in DirectChildren(i) :
            LET hp == get_hyperparameter(cs, child)
                held == new_array[get_idx_by_hyperparameter_name(cs, child)]
                was == configuration.vector[
                           get_idx_by_hyperparameter_name(cs, child)]
                now == IsActive(cs, Dictionary(cs, new_array), child)
            IN /\ (held # NaN) <=> now
               /\ (was # NaN /\ ~now) => held = NaN
               /\ (was = NaN /\ now) =>
                     held = inverse_transform(hp, hp.default)

\* The hyperparameter at idx has finitely many neighbours, and at least one.
FiniteNeighbours(idx) ==
    /\ get_num_neighbors(cs.hps[idx + 1]) # 0
    /\ ~isinf(get_num_neighbors(cs.hps[idx + 1]))

\* C14: in a call of get_one_exchange_neighbourhood the neighbours of a
\* hyperparameter of finite neighbour cardinality are drawn at most once,
\* so that at most as many candidates as it has neighbours are tried for
\* it, also when all of them are rejected; the call does not raise on
\* such a hyperparameter.
C14_FiniteDrawnOnce ==
    (op = "one_exchange" /\ attempts # <<>>) =>
        /\ \A idx \in Indices(cs) :
              FiniteNeighbours(idx) =>
                  attempts[idx] <= get_num_neighbors(cs.hps[idx + 1])
        /\ outcome = "raised" => ~FiniteNeighbours(i)

\* The candidates handed to the constructor in this call, over all
\* hyperparameters.
RECURSIVE AttemptsUpTo(_)
AttemptsUpTo(idx) ==
    IF idx < 0 THEN 0 ELSE attempts[idx] + AttemptsUpTo(idx - 1)

TotalAttempts == AttemptsUpTo(num_hyperparameters(cs) - 1)

\* The call is inside the loop of hyperparameter i.
InParameterLoop == pc \in {"while", "neighbor", "visit", "construct"}

\* C15 as stated: the attempt counter is global to the call; it counts the
\* candidates of all hyperparameters, the call raises exactly when more
\* than 10000 candidates have been tried in total and never returns after
\* that many.
C15_GlobalCounter ==
    (op = "one_exchange" /\ attempts # <<>>) =>
        /\ InParameterLoop => iteration = TotalAttempts
        /\ outcome = "raised" <=> TotalAttempts > MaxIterations
        /\ outcome = "returned" => TotalAttempts <= MaxIterations

\* C15: the attempt counter is kept per hyperparameter; inside the loop of
\* hyperparameter i it is the number of candidates tried for i alone.  The
\* call raises exactly when a candidate is tried while that counter is
\* already above 10000, which is candidate 10002 of that hyperparameter,
\* whatever was tried for the hyperparameters before it.
C15_CounterPerParameter ==
    (op = "one_exchange" /\ attempts # <<>>) =>
        /\ InParameterLoop => iteration = attempts[i]
        /\ \A idx \in Indices(cs) : attempts[idx] <= MaxIterations + 2
        /\ outcome = "raised" <=>
              \E idx \in Indices(cs) : attempts[idx] = MaxIterations + 2
        /\ outcome = "raised" =>
              (iteration = MaxIterations + 1
                  /\ attempts[i] = MaxIterations + 2)

\* The call has raised on a hyperparameter after candidates of an earlier
\* hyperparameter had been tried: the total is above what the counter
\* shows.
C15_Witness ==
    /\ op = "one_exchange" /\ outcome = "raised"
    /\ i > 0
    /\ TotalAttempts > attempts[i]
    /\ TotalAttempts > iteration + 1

\* The index of the last hyperparameter.
LastIndex == num_hyperparameters(cs) - 1

\* The last hyperparameter is the only one that is active and has
\* neighbours, and one of its neighbours gives a valid configuration.
OnlyLastSelectable ==
    /\ Selectable(LastIndex)
    /\ \A idx \in Indices(cs) \ {LastIndex} : ~Selectable(idx)
    /\ \E encoded \in EncodedDomain(cs.hps[LastIndex + 1]) :
          /\ encoded # configuration.vector[LastIndex]
          /\ is_valid_configuration(cs, ValuesWith(LastIndex, encoded))

\* C16: the selection of get_random_neighbor reaches every index, the last
\* one included: when the last hyperparameter is the only one that can be
\* selected and it has a valid neighbour, the call ends by returning a
\* neighbour, which differs from the input in that hyperparameter.
C16_LastIndexSelected ==
    (op = "random_neighbor" /\ pc = "done" /\ OnlyLastSelectable) =>
        /\ outcome = "returned"
        /\ rand_idx = LastIndex

\* The steps a call of get_one_exchange_neighbourhood can still take are
\* bounded by a number that every step lowers.  StepsOfCandidate bounds
\* the steps spent on one candidate (the draw, the copy, one visit per
\* queued hyperparameter, the construction), StepsOfParameter those spent
\* in the loop of one hyperparameter, where the counter can be raised
\* MaxIterations + 2 times at most.
StepsOfCandidate == num_hyperparameters(cs) + 5

StepsOfParameter == (MaxIterations + 3) * StepsOfCandidate + 2

WithinCandidate ==
    IF pc = "while" THEN num_hyperparameters(cs) + 4
    ELSE IF pc = "neighbor" THEN num_hyperparameters(cs) + 3
    ELSE IF pc = "visit" THEN 1 + Len(to_visit)
    ELSE 0

StepsLeft ==
    IF pc = "done" THEN 0
    ELSE IF pc = "start"
    THEN (num_hyperparameters(cs) + 1) * StepsOfParameter
    ELSE IF pc = "for"
    THEN (num_hyperparameters(cs) - i) * StepsOfParameter
             + StepsOfParameter - 1
    ELSE (num_hyperparameters(cs) - i) * StepsOfParameter
             + (MaxIterations + 2 - iteration) * StepsOfCandidate
             + WithinCandidate

\* The call is not stuck: where it stands, a step can be taken.
CanStep ==
    /\ pc = "visit" => Len(to_visit) > 0
    /\ pc = "neighbor" => neighbors # <<>>
    /\ pc \in {"while", "neighbor", "visit", "construct"} =>
          (i < num_hyperparameters(cs) /\ iteration <= MaxIterations + 1)

\* C17: a call of get_one_exchange_neighbourhood ends, whatever candidates
\* are accepted or rejected: every step of the call lowers the bound
\* StepsLeft on the steps still to come, which is never negative, and
\* leaves the call where it can take its next step, until it has returned
\* or raised.  The deque of the propagation gets shorter with every visit
\* and the loop of a hyperparameter is left by a break or by the fatal
\* error.
C17_OneExchangeEnds ==
    [][ (op = "one_exchange" /\ run' = run) =>
            /\ StepsLeft' < StepsLeft
            /\ StepsLeft' >= 0
            /\ CanStep'
            /\ pc' = "done" <=> outcome' \in {"returned", "raised"} ]_vars

\* The same as a property of the call running on its own under weak
\* fairness: once started it returns or raises.
OneExchangeEventuallyEnds ==
    (op = "one_exchange" /\ pc = "start")
        ~> (pc = "done" /\ outcome \in {"returned", "raised"})

\* A call has returned after a round in which every candidate of a
\* hyperparameter with children went through the propagation and more
\* candidates were tried than were collected.
C17_Witness ==
    /\ op = "one_exchange" /\ outcome = "returned"
    /\ \E idx \in Indices(cs) :
          /\ DirectChildren(idx) # {}
          /\ attempts[idx] > Contributed(idx)
          /\ Contributed(idx) > 0

\* The indices at which two vectors differ.
DifferingIndices(v, w) == { idx \in Indices(cs) : v[idx] # w[idx] }

\* The indices at which a vector holds a value.
ActiveIndices(v) == { idx \in Indices(cs) : v[idx] # NaN }

====
